---- MODULE Spec2Model ----
(***************************************************************************)
(* A model of geomdl/exchange/obj.py: the OBJ importer import_obj (a       *)
(* line-oriented state machine) and the OBJ serializer export_obj_str.     *)
(*                                                                         *)
(* A raw input line is a sequence of lexemes: " " (one space), "\t" (one   *)
(* tab) or a run of non-blank characters.  Tokenize splits it the way the  *)
(* code does (strip, split on single spaces, strip every piece).           *)
(***************************************************************************)
EXTENDS Integers, Sequences, FiniteSets, TLC

VARIABLES
    \* ---- import_obj ----
    im_pc,          \* "idle" | "loop" | "done" | "error": position in import_obj
    callback_func,  \* the callback in use (kwargs.get('callback', default_callback))
    content_arr,    \* the lines of content_arr the loop has consumed so far
    on_face, vertices, triangles, faces, vert_idx, tri_idx, face_idx,
    cb_calls,       \* arguments of the calls made to callback_func
    result,         \* what import_obj returned (NoResult until it returns)
    \* ---- export_obj_str ----
    ex_pc,          \* "idle" | "start" | "loop" | "done" | "error": position in export_obj_str
    surface,        \* the argument: [pdimension, items], items the surfaces it iterates over
    kwargs,         \* the keyword arguments given
    vertex_spacing, include_vertex_normal, include_param_vertex,
    line, vertex_offset, str_v, str_vn, str_vp, str_f,
    srf_i,          \* how many surfaces the loop of line 129 has processed
    tess_calls,     \* the calls made to tessellate.make_triangle_mesh, with what each returned
    normal_calls,   \* the calls made to exc_helpers.surface_normal
    ex_result       \* what export_obj_str returned (NoResult until it returns)

im_vars == <<im_pc, callback_func, content_arr, on_face, vertices, triangles,
             faces, vert_idx, tri_idx, face_idx, cb_calls, result>>

ex_vars == <<ex_pc, surface, kwargs, vertex_spacing, include_vertex_normal,
             include_param_vertex, line, vertex_offset, str_v, str_vn, str_vp,
             str_f, srf_i, tess_calls, normal_calls, ex_result>>

vars == <<im_vars, ex_vars>>

\* ------------------------------------------------------------------ bounds
MaxLines == 5

MaxSurfaces == 2

MaxMeshVerts == 3

\* ------------------------------------------------------------- small helpers
NoResult == "NoResult"

Last(s) == s[Len(s)]

Front(s) == SubSeq(s, 1, Len(s) - 1)

\* ------------------------------------------------------------- tokenization
Whitespace == {" ", "\t"}

RECURSIVE LStrip(_)
LStrip(s) == IF s # <<>> /\ Head(s) \in Whitespace THEN LStrip(Tail(s)) ELSE s

RECURSIVE RStrip(_)
RStrip(s) == IF s # <<>> /\ Last(s) \in Whitespace THEN RStrip(Front(s)) ELSE s

\* str.strip()
Strip(s) == RStrip(LStrip(s))

\* str.split(" "): one piece more than there are spaces, empty pieces kept
RECURSIVE Split(_)
Split(s) ==
    IF s = <<>> THEN << <<>> >>
    ELSE LET rest == Split(Tail(s))
         IN  IF Head(s) = " " THEN << <<>> >> \o rest
             ELSE << <<Head(s)>> \o Head(rest) >> \o Tail(rest)

\* the text of a piece
RECURSIVE Concat(_)
Concat(s) == IF s = <<>> THEN "" ELSE Head(s) \o Concat(Tail(s))

\* lines 62-64: carr.strip(); carr.split(" "); [d.strip() for d in data]
Tokenize(carr) ==
    LET pieces == Split(Strip(carr))
    IN  [k \in 1..Len(pieces) |-> Concat(Strip(pieces[k]))]

\* ------------------------------------------------------------------ int()
Digits == <<"0", "1", "2", "3", "4", "5", "6", "7", "8", "9">>

IntLiterals ==
    [t \in {Digits[k] : k \in 1..Len(Digits)} |->
        (CHOOSE k \in 1..Len(Digits) : Digits[k] = t) - 1]

IsIntLiteral(tok) ==
    \/ tok \in DOMAIN IntLiterals
    \/ \E t \in DOMAIN IntLiterals : tok = "-" \o t

\* int(fidx) of line 80, for a token int() accepts (a decimal digit with an
\* optional minus sign); on any other token int() raises ValueError
ParseInt(tok) ==
    IF tok \in DOMAIN IntLiterals THEN IntLiterals[tok]
    ELSE -IntLiterals[CHOOSE t \in DOMAIN IntLiterals : tok = "-" \o t]

\* ------------------------------------------------------------ the entities
\* entity.Vertex(*args, id=...): three coordinates
VertexAccepts(args) == Len(args) = 3 /\ \A k \in 1..Len(args) : IsIntLiteral(args[k])

Vertex(args, id) == [id |-> id, data |-> [k \in 1..Len(args) |-> ParseInt(args[k])]]

\* entity.Triangle(*args, id=...): the vertices it is given, at least three
TriangleAccepts(args) == Len(args) >= 3

Triangle(args, id) == [id |-> id, data |-> args]

\* entity.Face(*args, id=...)
Face(args, id) == [id |-> id, data |-> args]

\* --------------------------------------------------------- list indexing
\* vertices[k] of line 80, k 0-based: Python counts a negative k from the end
InList(list, k) == -Len(list) <= k /\ k < Len(list)

ListItem(list, k) == IF k >= 0 THEN list[k + 1] ELSE list[Len(list) + k + 1]

\* ------------------------------------------------------- the parser's state
\* lines 50-58
InitialState ==
    [on_face |-> FALSE, vertices |-> <<>>, triangles |-> <<>>, faces |-> <<>>,
     vert_idx |-> 1, tri_idx |-> 1, face_idx |-> 1, raised |-> FALSE]

State ==
    [on_face |-> on_face, vertices |-> vertices, triangles |-> triangles,
     faces |-> faces, vert_idx |-> vert_idx, tri_idx |-> tri_idx,
     face_idx |-> face_idx, raised |-> FALSE]

\* an exception leaves the locals as they are when it is raised
Raise(st) == [st EXCEPT !.raised = TRUE]

\* FinalizeFace without lines 71 and 73: the vertex buffer is kept
FinalizeFaceKeepingVertices(st) ==
    [st EXCEPT !.on_face = ~st.on_face,
               !.faces = Append(st.faces, Face(st.triangles, st.face_idx)),
               !.face_idx = st.face_idx + 1,
               !.triangles = <<>>,
               !.tri_idx = 1]

\* FinalizeFace without lines 73 and 74: the counters run on
FinalizeFaceKeepingCounters(st) ==
    [st EXCEPT !.on_face = ~st.on_face,
               !.faces = Append(st.faces, Face(st.triangles, st.face_idx)),
               !.face_idx = st.face_idx + 1,
               !.vertices = <<>>,
               !.triangles = <<>>]

\* FinalizeFace without line 67: the in-face flag stays set
FinalizeFaceKeepingFlag(st) ==
    [st EXCEPT !.faces = Append(st.faces, Face(st.triangles, st.face_idx)),
               !.face_idx = st.face_idx + 1,
               !.vertices = <<>>,
               !.triangles = <<>>,
               !.vert_idx = 1,
               !.tri_idx = 1]

\* lines 67-74: the finalization of a Face when a vertex follows faces
FinalizeFace(st) ==
    [st EXCEPT !.on_face = ~st.on_face,
               !.faces = Append(st.faces, Face(st.triangles, st.face_idx)),
               !.face_idx = st.face_idx + 1,
               !.vertices = <<>>,
               !.triangles = <<>>,
               !.vert_idx = 1,
               !.tri_idx = 1]

\* lines 65-77 without the test of line 66: every `v` line finalizes a Face
VertexLineAlwaysFinalizes(st, data) ==
    LET s1 == FinalizeFace([st EXCEPT !.on_face = TRUE])
    IN  IF VertexAccepts(Tail(data))
        THEN [s1 EXCEPT !.vertices = Append(s1.vertices, Vertex(Tail(data), s1.vert_idx)),
                        !.vert_idx = s1.vert_idx + 1]
        ELSE Raise(s1)

\* lines 65-77: a line whose first token is "v"
VertexLine(st, data) ==
    LET s1 == IF st.on_face THEN FinalizeFace(st) ELSE st
    IN  IF VertexAccepts(Tail(data))
        THEN [s1 EXCEPT !.vertices = Append(s1.vertices, Vertex(Tail(data), s1.vert_idx)),
                        !.vert_idx = s1.vert_idx + 1]
        ELSE Raise(s1)

\* line 80, vertices[int(fidx) - 1]: whether the lookup of one token succeeds
Resolves(list, fidx) == IsIntLiteral(fidx) /\ InList(list, ParseInt(fidx) - 1)

Resolve(list, fidx) == ListItem(list, ParseInt(fidx) - 1)

\* lines 78-82: a line whose first token is "f"
FaceLine(st, data) ==
    LET s1 == [st EXCEPT !.on_face = TRUE]
        idx == Tail(data)
    IN  IF \A k \in 1..Len(idx) : Resolves(s1.vertices, idx[k])
        THEN LET vs == [k \in 1..Len(idx) |-> Resolve(s1.vertices, idx[k])]
             IN  IF TriangleAccepts(vs)
                 THEN [s1 EXCEPT !.triangles = Append(s1.triangles, Triangle(vs, s1.tri_idx)),
                                 !.tri_idx = s1.tri_idx + 1]
                 ELSE Raise(s1)
        ELSE Raise(s1)

\* lines 62-82 with line 78 an `else`: every line that is no `v` line is a face line
LoopBodyElseFace(st, carr) ==
    LET data == Tokenize(carr)
    IN  IF data[1] = "v" THEN VertexLine(st, data) ELSE FaceLine(st, data)

\* lines 62-82: the body of the loop for one line
LoopBody(st, carr) ==
    LET data == Tokenize(carr)
        s1 == IF data[1] = "v" THEN VertexLine(st, data) ELSE st
    IN  IF ~s1.raised /\ data[1] = "f" THEN FaceLine(s1, data) ELSE s1

\* lines 85-87 left out: the triangles pending at the end are dropped
FinalFaceDropped(st) == st

\* lines 86-87 without the test of line 85
FinalFaceAlways(st) ==
    [st EXCEPT !.faces = Append(st.faces, Face(st.triangles, st.face_idx))]

\* lines 85-87: the final face
FinalFace(st) ==
    IF st.triangles # <<>>
    THEN [st EXCEPT !.faces = Append(st.faces, Face(st.triangles, st.face_idx))]
    ELSE st

\* --------------------------------------------------------------- callbacks
Reverse(s) == [k \in 1..Len(s) |-> s[Len(s) + 1 - k]]

Callbacks == {"default_callback", "user_callback"}

\* lines 39-40 (default_callback); the caller's callback returns the list reversed
CallbackResult(cb, face_list) ==
    IF cb = "default_callback" THEN face_list ELSE Reverse(face_list)

\* ------------------------------------------------------------ input lines
RECURSIVE Line(_)
\* the tokens joined by single spaces
Line(tokens) ==
    IF Len(tokens) <= 1 THEN tokens
    ELSE <<Head(tokens), " ">> \o Line(Tail(tokens))

VertexLines ==
    { Line(<<"v", "0", "0", "0">>), Line(<<"v", "1", "0", "0">>),
      Line(<<"v">>), Line(<<"v", "1", "0">>) }

FaceLines ==
    { Line(<<"f", "1", "1", "1">>), Line(<<"f", "1", "2", "1">>),
      Line(<<"f", "3", "1", "1">>),
      Line(<<"f", "0", "1", "1">>), Line(<<"f", "-1", "1", "1">>),
      Line(<<"f", "x", "1", "1">>), Line(<<"f", "1", "2", "1", "2">>),
      Line(<<"f">>), Line(<<"f", "1", "1">>),
      <<"f", " ", " ", "1", " ", "1", " ", "1">> }

OtherLines ==
    { <<>>, Line(<<"vn", "0", "0", "1">>) }

Lines == VertexLines \cup FaceLines \cup OtherLines

\* ----------------------------------------------------------------- actions
SetState(st) ==
    /\ on_face' = st.on_face
    /\ vertices' = st.vertices
    /\ triangles' = st.triangles
    /\ faces' = st.faces
    /\ vert_idx' = st.vert_idx
    /\ tri_idx' = st.tri_idx
    /\ face_idx' = st.face_idx

\* lines 61-90 hold no try/except: an exception raised in the loop leaves
\* import_obj at once, nothing is returned and the callback is not called
Propagate(st) ==
    /\ im_pc' = "error"
    /\ result' = NoResult
    /\ cb_calls' = cb_calls

ImInit ==
    /\ im_pc = "loop"
    /\ callback_func \in Callbacks
    /\ content_arr = <<>>
    /\ on_face = InitialState.on_face
    /\ vertices = InitialState.vertices
    /\ triangles = InitialState.triangles
    /\ faces = InitialState.faces
    /\ vert_idx = InitialState.vert_idx
    /\ tri_idx = InitialState.tri_idx
    /\ face_idx = InitialState.face_idx
    /\ cb_calls = <<>>
    /\ result = NoResult

\* one iteration of the loop of line 61 on the next line of the file
ProcessLine(carr) ==
    /\ im_pc = "loop"
    /\ Len(content_arr) < MaxLines
    /\ content_arr' = Append(content_arr, carr)
    /\ LET st == LoopBody(State, carr)
       IN  /\ SetState(st)
           /\ IF st.raised
              THEN Propagate(st)
              ELSE /\ im_pc' = "loop"
                   /\ UNCHANGED <<result, cb_calls>>
    /\ UNCHANGED callback_func
    /\ UNCHANGED ex_vars

\* lines 84-90 with the callback called before the final face of lines 85-87
ReturnCallbackFirst ==
    /\ im_pc = "loop"
    /\ Len(content_arr) >= 1
    /\ cb_calls' = Append(cb_calls, faces)
    /\ result' = CallbackResult(callback_func, faces)
    /\ SetState(FinalFace(State))
    /\ im_pc' = "done"
    /\ UNCHANGED <<callback_func, content_arr>>
    /\ UNCHANGED ex_vars

\* lines 84-90 after the last line: content.split("\n") holds at least one line
Return ==
    /\ im_pc = "loop"
    /\ Len(content_arr) >= 1
    /\ LET st == FinalFace(State)
       IN  /\ SetState(st)
           /\ cb_calls' = Append(cb_calls, st.faces)
           /\ result' = CallbackResult(callback_func, st.faces)
    /\ im_pc' = "done"
    /\ UNCHANGED <<callback_func, content_arr>>
    /\ UNCHANGED ex_vars

ImNext ==
    \/ \E carr \in Lines : ProcessLine(carr)
    \/ Return

\* =========================================================== export_obj_str
\* str() of an integer
RECURSIVE Str(_)
Str(n) ==
    IF n < 0 THEN "-" \o Str(-n)
    ELSE IF n < 10 THEN Digits[n + 1]
    ELSE Str(n \div 10) \o Digits[(n % 10) + 1]

\* kwargs.get(key, default)
Get(kw, key, default) == IF key \in DOMAIN kw THEN kw[key] ELSE default

\* ------------------------------------------------------------ the inputs
\* the k-th surface of the container: its evaluated points and sample sizes
Surface(k) == [evalpts |-> k, sample_size |-> [u |-> k + 1, v |-> 2]]

Containers ==
    { [pdimension |-> d, items |-> [k \in 1..n |-> Surface(k)]] :
        d \in 1..3, n \in 0..MaxSurfaces }

NoKwargs == [k \in {} |-> 0]

KwargsChoices ==
    { a @@ b @@ c :
        a \in {NoKwargs} \cup { "vertex_spacing" :> n : n \in -1..2 },
        b \in {NoKwargs, "vertex_normals" :> TRUE},
        c \in {NoKwargs, "parametric_vertices" :> TRUE} }

\* --------------------------------------------------------- collaborators
\* a vertex of a tessellated mesh: position and parametric coordinate
MeshVertex(evalpts, k) == [x |-> evalpts, y |-> k, z |-> 0, uv |-> <<k, evalpts>>]

\* the triangle lists a mesh of n vertices may carry (0-based local indices)
TriangleLists(n) ==
    LET a == [data |-> <<0, 0, 0>>]
        b == [data |-> <<n - 1, 0, n \div 2>>]
    IN  { <<>>, <<a>>, <<b>>, <<a, b>> }

\* tessellate.make_triangle_mesh(evalpts, size_u, size_v): the (vertices,
\* triangles) pairs it may return
MakeTriangleMesh(evalpts, size_u, size_v) ==
    UNION { { [vertices |-> [k \in 1..n |-> MeshVertex(evalpts, k - 1)], triangles |-> ts] :
                ts \in TriangleLists(n) } : n \in 1..MaxMeshVerts }

\* exc_helpers.surface_normal(srf, uv, True): (position, normal vector), 0-based sn[1]
SurfaceNormal(srf, uv, normalize) ==
    << <<srf.evalpts, uv[1], 0>>, <<uv[1], srf.evalpts, 1>> >>

\* ------------------------------------------------------------ text lines
\* a line of the text is the sequence of its space-separated fields; the "\n"
\* that ends it is left out.  Line 119:
Header == <<"#", "Generated", "by", "geomdl">>

\* line 135
VertexText(vert) == <<"v", Str(vert.x), Str(vert.y), Str(vert.z)>>

\* line 141
ParamText(vert) == <<"vp", Str(vert.uv[1]), Str(vert.uv[2])>>

\* lines 147-148
NormalText(sn) == <<"vn", Str(sn[2][1]), Str(sn[2][2]), Str(sn[2][3])>>

\* lines 153-157 without the offset: the indices local to the surface
FaceTextLocal(t, offset) ==
    <<"f", Str(t.data[1] + 1), Str(t.data[2] + 1), Str(t.data[3] + 1)>>

\* lines 153-157 without the + 1: 0-based indices
FaceTextZeroBased(t, offset) ==
    <<"f", Str(t.data[1] + offset), Str(t.data[2] + offset), Str(t.data[3] + offset)>>

\* lines 153-157 with the second and the third index exchanged
FaceTextSwapped(t, offset) ==
    <<"f", Str(t.data[1] + 1 + offset), Str(t.data[3] + 1 + offset),
           Str(t.data[2] + 1 + offset)>>

\* lines 153-157
FaceText(t, offset) ==
    <<"f", Str(t.data[1] + 1 + offset), Str(t.data[2] + 1 + offset),
           Str(t.data[3] + 1 + offset)>>

\* lines 113-116: the checks of the input
NotASurface(s) == s.pdimension # 2

\* line 115 with the bound off by one
BadSpacingNegative(spacing) == spacing < 0

BadSpacing(spacing) == spacing < 1

\* lines 164-171 with the loops of lines 166 and 168 exchanged
AssembleParamsFirst(ln, v, vn, vp, f) == ln \o v \o vp \o vn \o f

\* lines 164-171: the text, block by block
Assemble(ln, v, vn, vp, f) == ln \o v \o vn \o vp \o f

\* ---------------------------------------------------------------- actions
ExUnassigned ==
    /\ vertex_spacing = 0
    /\ include_vertex_normal = FALSE
    /\ include_param_vertex = FALSE
    /\ line = <<>>
    /\ vertex_offset = 0
    /\ str_v = <<>>
    /\ str_vn = <<>>
    /\ str_vp = <<>>
    /\ str_f = <<>>
    /\ srf_i = 0
    /\ tess_calls = <<>>
    /\ normal_calls = <<>>
    /\ ex_result = NoResult

ExInit ==
    /\ ex_pc = "start"
    /\ surface \in Containers
    /\ kwargs \in KwargsChoices
    /\ ExUnassigned

\* lines 108-126 with the keys of lines 109 and 110 exchanged
ValidateFlagsSwapped ==
    /\ ex_pc = "start"
    /\ vertex_spacing' = Get(kwargs, "vertex_spacing", 1)
    /\ include_vertex_normal' = Get(kwargs, "parametric_vertices", FALSE)
    /\ include_param_vertex' = Get(kwargs, "vertex_normals", FALSE)
    /\ IF NotASurface(surface) \/ BadSpacing(vertex_spacing')
       THEN /\ ex_pc' = "error"
            /\ UNCHANGED <<line, vertex_offset, str_v, str_vn, str_vp, str_f>>
       ELSE /\ ex_pc' = "loop"
            /\ line' = <<Header>>
            /\ vertex_offset' = 0
            /\ str_v' = <<>>
            /\ str_vn' = <<>>
            /\ str_vp' = <<>>
            /\ str_f' = <<>>
    /\ UNCHANGED <<surface, kwargs, srf_i, tess_calls, normal_calls, ex_result>>
    /\ UNCHANGED im_vars

\* lines 108-126: the keyword arguments, the checks, the empty lists
Validate ==
    /\ ex_pc = "start"
    /\ vertex_spacing' = Get(kwargs, "vertex_spacing", 1)
    /\ include_vertex_normal' = Get(kwargs, "vertex_normals", FALSE)
    /\ include_param_vertex' = Get(kwargs, "parametric_vertices", FALSE)
    /\ IF NotASurface(surface) \/ BadSpacing(vertex_spacing')
       THEN /\ ex_pc' = "error"
            /\ UNCHANGED <<line, vertex_offset, str_v, str_vn, str_vp, str_f>>
       ELSE /\ ex_pc' = "loop"
            /\ line' = <<Header>>
            /\ vertex_offset' = 0
            /\ str_v' = <<>>
            /\ str_vn' = <<>>
            /\ str_vp' = <<>>
            /\ str_f' = <<>>
    /\ UNCHANGED <<surface, kwargs, srf_i, tess_calls, normal_calls, ex_result>>
    /\ UNCHANGED im_vars

\* lines 129-161 with the loop of line 146 running over the vertices backwards
ProcessSurfaceNormalsBackwards(mesh) ==
    /\ ex_pc = "loop"
    /\ srf_i < Len(surface.items)
    /\ LET srf == surface.items[srf_i + 1]
           vs == mesh.vertices
           ts == mesh.triangles
           new_v == str_v \o [k \in 1..Len(vs) |-> VertexText(vs[k])]
       IN  /\ mesh \in MakeTriangleMesh(srf.evalpts, srf.sample_size.u, srf.sample_size.v)
           /\ tess_calls' = Append(tess_calls,
                  [args |-> <<srf.evalpts, srf.sample_size.u, srf.sample_size.v>>,
                   kwargs |-> NoKwargs,
                   returned |-> mesh])
           /\ str_v' = new_v
           /\ str_vp' = IF include_param_vertex
                        THEN str_vp \o [k \in 1..Len(vs) |-> ParamText(vs[k])]
                        ELSE str_vp
           /\ IF include_vertex_normal
              THEN /\ normal_calls' = normal_calls \o
                          [k \in 1..Len(vs) |-> <<srf, vs[Len(vs) + 1 - k].uv, TRUE>>]
                   /\ str_vn' = str_vn \o
                          [k \in 1..Len(vs) |->
                              NormalText(SurfaceNormal(srf, vs[Len(vs) + 1 - k].uv, TRUE))]
              ELSE UNCHANGED <<normal_calls, str_vn>>
           /\ str_f' = str_f \o [k \in 1..Len(ts) |-> FaceText(ts[k], vertex_offset)]
           /\ vertex_offset' = Len(new_v)
    /\ srf_i' = srf_i + 1
    /\ UNCHANGED <<ex_pc, surface, kwargs, vertex_spacing, include_vertex_normal,
                   include_param_vertex, line, ex_result>>
    /\ UNCHANGED im_vars

\* lines 129-161: one iteration of the loop, on the next surface
ProcessSurface(mesh) ==
    /\ ex_pc = "loop"
    /\ srf_i < Len(surface.items)
    /\ LET srf == surface.items[srf_i + 1]
           vs == mesh.vertices
           ts == mesh.triangles
           new_v == str_v \o [k \in 1..Len(vs) |-> VertexText(vs[k])]
       IN  /\ mesh \in MakeTriangleMesh(srf.evalpts, srf.sample_size.u, srf.sample_size.v)
           /\ tess_calls' = Append(tess_calls,
                  [args |-> <<srf.evalpts, srf.sample_size.u, srf.sample_size.v>>,
                   kwargs |-> NoKwargs,
                   returned |-> mesh])
           /\ str_v' = new_v
           /\ str_vp' = IF include_param_vertex
                        THEN str_vp \o [k \in 1..Len(vs) |-> ParamText(vs[k])]
                        ELSE str_vp
           /\ IF include_vertex_normal
              THEN /\ normal_calls' = normal_calls \o
                          [k \in 1..Len(vs) |-> <<srf, vs[k].uv, TRUE>>]
                   /\ str_vn' = str_vn \o
                          [k \in 1..Len(vs) |-> NormalText(SurfaceNormal(srf, vs[k].uv, TRUE))]
              ELSE UNCHANGED <<normal_calls, str_vn>>
           /\ str_f' = str_f \o [k \in 1..Len(ts) |-> FaceText(ts[k], vertex_offset)]
           /\ vertex_offset' = Len(new_v)
    /\ srf_i' = srf_i + 1
    /\ UNCHANGED <<ex_pc, surface, kwargs, vertex_spacing, include_vertex_normal,
                   include_param_vertex, line, ex_result>>
    /\ UNCHANGED im_vars

\* lines 163-173: after the last surface, the text is put together and returned
ReturnText ==
    /\ ex_pc = "loop"
    /\ srf_i = Len(surface.items)
    /\ line' = Assemble(line, str_v, str_vn, str_vp, str_f)
    /\ ex_result' = line'
    /\ ex_pc' = "done"
    /\ UNCHANGED <<surface, kwargs, vertex_spacing, include_vertex_normal,
                   include_param_vertex, vertex_offset, str_v, str_vn, str_vp,
                   str_f, srf_i, tess_calls, normal_calls>>
    /\ UNCHANGED im_vars

AllMeshes == UNION { MakeTriangleMesh(s.evalpts, s.sample_size.u, s.sample_size.v) :
                       s \in { Surface(k) : k \in 1..MaxSurfaces } }

ExNext ==
    \/ Validate
    \/ \E mesh \in AllMeshes : ProcessSurface(mesh)
    \/ ReturnText

\* ------------------------------------------------------- specifications
\* while import_obj runs, export_obj_str does not, and conversely
ImIdleExport ==
    /\ ex_pc = "idle"
    /\ surface = [pdimension |-> 2, items |-> <<>>]
    /\ kwargs = NoKwargs
    /\ ExUnassigned

ExIdleImport ==
    /\ im_pc = "idle"
    /\ callback_func = "default_callback"
    /\ content_arr = <<>>
    /\ on_face = InitialState.on_face
    /\ vertices = InitialState.vertices
    /\ triangles = InitialState.triangles
    /\ faces = InitialState.faces
    /\ vert_idx = InitialState.vert_idx
    /\ tri_idx = InitialState.tri_idx
    /\ face_idx = InitialState.face_idx
    /\ cb_calls = <<>>
    /\ result = NoResult

InitImport == ImInit /\ ImIdleExport

InitExport == ExInit /\ ExIdleImport

SpecImport == InitImport /\ [][ImNext]_vars

SpecExport == InitExport /\ [][ExNext]_vars

Init == InitImport \/ InitExport

Next == ImNext \/ ExNext

Spec == Init /\ [][Next]_vars

\* ============================================================ the claims
\* ---- what the input read so far says, told from the lines alone ----
HeadToken(carr) == Tokenize(carr)[1]

\* the loop has just processed a line
LineStep == im_pc = "loop" /\ content_arr' # content_arr

\* the line just processed, tokenized
NewData == Tokenize(Last(content_arr'))

RECURSIVE LastVF(_)
\* the leading token of the last `v` or `f` line among the lines, "none" without one
LastVF(lines) ==
    IF lines = <<>> THEN "none"
    ELSE IF HeadToken(Last(lines)) \in {"v", "f"} THEN HeadToken(Last(lines))
    ELSE LastVF(Front(lines))

RECURSIVE Transitions(_)
\* how many `v` lines are the first `v` line after one or more `f` lines
Transitions(lines) ==
    IF lines = <<>> THEN 0
    ELSE Transitions(Front(lines)) +
         (IF HeadToken(Last(lines)) = "v" /\ LastVF(Front(lines)) = "f" THEN 1 ELSE 0)

RECURSIVE VertexBlock(_)
\* the `v` lines (tokenized) of the vertex block the lines end in: those read
\* since the last `v` line that followed an `f` line, that line included
VertexBlock(lines) ==
    IF lines = <<>> THEN <<>>
    ELSE LET prev == Front(lines)
             d == Tokenize(Last(lines))
         IN  IF d[1] # "v" THEN VertexBlock(prev)
             ELSE IF LastVF(prev) = "f" THEN <<d>>
             ELSE Append(VertexBlock(prev), d)

\* an `f` line with an index token that is an integer outside 1..n
OutOfRangeLine(data, n) ==
    /\ data[1] = "f"
    /\ \E k \in 2..Len(data) :
          IsIntLiteral(data[k]) /\ (ParseInt(data[k]) < 1 \/ ParseInt(data[k]) > n)

\* a `v` or `f` line with fewer than three tokens after the leading one
ShortLine(data) == data[1] \in {"v", "f"} /\ Len(data) < 4

\* a `v` line without exactly three numbers, an `f` line without at least three integers
MalformedLine(data) ==
    \/ ShortLine(data)
    \/ data[1] = "v" /\ (Len(data) # 4 \/ \E k \in 2..Len(data) : ~IsIntLiteral(data[k]))
    \/ data[1] = "f" /\ \E k \in 2..Len(data) : ~IsIntLiteral(data[k])

\* C1: an `f` line with an index below 1 or above the number of vertices in the
\* vertex buffer makes the import fail, and no Triangle is formed from it.
C1_OutOfRangeIndexIsParseError ==
    [][LineStep /\ OutOfRangeLine(NewData, Len(vertices))
          => im_pc' = "error" /\ triangles' = triangles]_vars

\* C2: on an accepted input a Face is appended exactly at a `v` line that is the
\* first `v` line after one or more `f` lines, and at the end of input when the
\* triangle buffer is not empty; so the Faces returned number the transitions
\* from a face block to a vertex block, plus one if the input ends in a face block.
C2_FaceAppendedExactlyAtBoundaries ==
    [][/\ LineStep /\ im_pc' = "loop" =>
            IF HeadToken(Last(content_arr')) = "v" /\ LastVF(content_arr) = "f"
            THEN Len(faces') = Len(faces) + 1 /\ Front(faces') = faces
            ELSE faces' = faces
       /\ im_pc = "loop" /\ im_pc' = "done" =>
            /\ IF triangles # <<>>
               THEN Len(faces') = Len(faces) + 1 /\ Front(faces') = faces
               ELSE faces' = faces
            /\ Len(cb_calls'[1]) = Transitions(content_arr)
                   + (IF LastVF(content_arr) = "f" THEN 1 ELSE 0)
            /\ Len(result') = Len(cb_calls'[1])]_vars

C2_Witness ==
    /\ im_pc = "done"
    /\ Transitions(content_arr) = 1
    /\ LastVF(content_arr) = "f"
    /\ Len(faces) = 2

\* C3: an in-range index i of an accepted `f` line resolves to the i-th vertex of
\* the vertex block that precedes the line, and the `v` line that finalizes a
\* Face starts the vertex buffer afresh with its own vertex.
C3_IndexResolvesInCurrentBlock ==
    [][LineStep /\ im_pc' = "loop" =>
         /\ NewData[1] = "f" =>
              \A k \in 2..Len(NewData) :
                 (IsIntLiteral(NewData[k]) /\ ParseInt(NewData[k]) \in 1..Len(vertices)) =>
                    LET i == ParseInt(NewData[k])
                        block == VertexBlock(content_arr)
                    IN  /\ i <= Len(block)
                        /\ Last(triangles').data[k - 1] = Vertex(Tail(block[i]), i)
         /\ (NewData[1] = "v" /\ Len(faces') > Len(faces)) =>
              vertices' = <<Vertex(Tail(NewData), 1)>>]_vars

C3_Witness ==
    /\ im_pc = "loop"
    /\ Len(faces) = 1
    /\ triangles # <<>>
    /\ triangles[1].data[1] # faces[1].data[1].data[1]
    /\ triangles[1].data[1] = Vertex(Tail(VertexBlock(content_arr)[1]), 1)

\* ---- what the calls to the tessellator say about the text ----
\* the number of surfaces processed, and the mesh of the s-th
Processed == Len(tess_calls)

MeshOf(s) == tess_calls[s].returned

RECURSIVE VertsBefore(_)
\* the vertices of the meshes of the surfaces processed before the s-th
VertsBefore(s) == IF s <= 1 THEN 0 ELSE VertsBefore(s - 1) + Len(MeshOf(s - 1).vertices)

RECURSIVE TrisBefore(_)
TrisBefore(s) == IF s <= 1 THEN 0 ELSE TrisBefore(s - 1) + Len(MeshOf(s - 1).triangles)

\* the lines of the text returned that start with the token `kind`
OutLines(kind) == SelectSeq(ex_result, LAMBDA l : l[1] = kind)

IndexTexts == 0..(2 * MaxSurfaces * MaxMeshVerts + 1)

IsIndexText(tok) == \E n \in IndexTexts : Str(n) = tok

\* the number a field of the text reads as
NatOf(tok) == CHOOSE n \in IndexTexts : Str(n) = tok

\* the mesh uses local indices 0..n-1 only, and its last vertex
WellFormedMesh(m) ==
    LET n == Len(m.vertices)
    IN  /\ \A t \in 1..Len(m.triangles) : \A c \in 1..3 : m.triangles[t].data[c] \in 0..(n - 1)
        /\ \E t \in 1..Len(m.triangles) : \E c \in 1..3 : m.triangles[t].data[c] = n - 1

\* C4: the face line of the triangle (i,j,k) of surface s is
\* f (i+1+off) (j+1+off) (k+1+off), off the number of `v` lines of the surfaces
\* processed before s: a running total, 0 for the first surface.
C4_FaceIndicesUseRunningOffset ==
    ex_pc \in {"loop", "done"} =>
        LET f == IF ex_pc = "done" THEN OutLines("f") ELSE str_f
            v == IF ex_pc = "done" THEN OutLines("v") ELSE str_v
        IN  /\ Len(v) = VertsBefore(Processed + 1)
            /\ Len(f) = TrisBefore(Processed + 1)
            /\ \A s \in 1..Processed : \A t \in 1..Len(MeshOf(s).triangles) :
                  LET tri == MeshOf(s).triangles[t].data
                      off == VertsBefore(s)
                  IN  f[TrisBefore(s) + t] =
                        <<"f", Str(tri[1] + 1 + off), Str(tri[2] + 1 + off),
                               Str(tri[3] + 1 + off)>>

C4_Witness ==
    /\ ex_pc = "done"
    /\ Processed = 2
    /\ Len(MeshOf(1).vertices) >= 2
    /\ Len(MeshOf(2).triangles) = 2

\* C5: when every mesh uses its local indices 0..n-1 only and its last vertex,
\* every index of every `f` line of the text is in 1..T, T the number of `v`
\* lines, the indices of a surface lie among its own vertices, and the largest
\* index is T.
C5_FaceIndicesWithinVertexCount ==
    (/\ ex_pc = "done"
     /\ Processed >= 1
     /\ \A s \in 1..Processed : WellFormedMesh(MeshOf(s))) =>
        LET f == OutLines("f")
            T == Len(OutLines("v"))
        IN  /\ \A p \in 1..Len(f) : \A c \in 2..4 :
                  IsIndexText(f[p][c]) /\ NatOf(f[p][c]) \in 1..T
            /\ \A s \in 1..Processed : \A t \in 1..Len(MeshOf(s).triangles) :
                  \A c \in 2..4 :
                     NatOf(f[TrisBefore(s) + t][c]) \in
                        (VertsBefore(s) + 1)..(VertsBefore(s) + Len(MeshOf(s).vertices))
            /\ \E p \in 1..Len(f) : \E c \in 2..4 : NatOf(f[p][c]) = T

C5_Witness ==
    /\ ex_pc = "done"
    /\ Processed = 2
    /\ \A s \in 1..Processed : WellFormedMesh(MeshOf(s))
    /\ Len(MeshOf(1).vertices) = 3
    /\ Len(OutLines("f")) = 3

\* the place of a block in the text
BlockRank(kind) ==
    CASE kind = "#" -> 0
      [] kind = "v" -> 1
      [] kind = "vn" -> 2
      [] kind = "vp" -> 3
      [] kind = "f" -> 4
      [] OTHER -> 5

RECURSIVE VertexSlots(_)
\* the vertices of the first s surfaces in their order, each as <<surface, vertex>>
VertexSlots(s) ==
    IF s = 0 THEN <<>>
    ELSE VertexSlots(s - 1) \o [k \in 1..Len(MeshOf(s).vertices) |-> <<s, k>>]

\* one line for each vertex of the surfaces processed, in their order
SurfaceLines(Text(_, _)) ==
    LET slots == VertexSlots(Processed)
    IN  [p \in 1..Len(slots) |-> Text(slots[p][1], slots[p][2])]

\* C6: the text is the generator comment, then every `v` line, then every `vn`
\* line, then every `vp` line, then every `f` line; inside a block the lines
\* come in the order of the surfaces.
C6_BlocksInOrder ==
    ex_pc = "done" =>
        /\ ex_result[1] = Header
        /\ \A p \in 2..Len(ex_result) : BlockRank(ex_result[p][1]) \in 1..4
        /\ \A p, q \in 1..Len(ex_result) :
              p < q => BlockRank(ex_result[p][1]) <= BlockRank(ex_result[q][1])
        /\ OutLines("v") =
              SurfaceLines(LAMBDA s, k : VertexText(MeshOf(s).vertices[k]))
        /\ OutLines("vn") =
              IF include_vertex_normal
              THEN SurfaceLines(LAMBDA s, k :
                      NormalText(SurfaceNormal(surface.items[s], MeshOf(s).vertices[k].uv, TRUE)))
              ELSE <<>>
        /\ OutLines("vp") =
              IF include_param_vertex
              THEN SurfaceLines(LAMBDA s, k : ParamText(MeshOf(s).vertices[k]))
              ELSE <<>>
        /\ \A p, q \in 1..Len(OutLines("f")) :
              p < q => \E s1, s2 \in 1..Processed :
                          /\ s1 <= s2
                          /\ p \in (TrisBefore(s1) + 1)..TrisBefore(s1 + 1)
                          /\ q \in (TrisBefore(s2) + 1)..TrisBefore(s2 + 1)
                          /\ OutLines("f")[p] \in
                                { FaceText(MeshOf(s1).triangles[t], VertsBefore(s1)) :
                                     t \in 1..Len(MeshOf(s1).triangles) }

C6_Witness ==
    /\ ex_pc = "done"
    /\ Processed = 2
    /\ include_vertex_normal
    /\ include_param_vertex
    /\ Len(OutLines("f")) >= 2
    /\ Len(OutLines("vn")) >= 2

\* the input the checks of export_obj_str refuse
InvalidInput ==
    \/ surface.pdimension # 2
    \/ "vertex_spacing" \in DOMAIN kwargs /\ kwargs["vertex_spacing"] < 1

\* C7: with vertex_spacing < 1 or an input that is no 2-parameter surface the
\* export fails before any surface is processed: the tessellator and the normal
\* evaluator are never called and no text, not even a part of it, is produced.
C7_ValidationBeforeProcessing ==
    InvalidInput =>
        /\ ex_pc \in {"start", "error"}
        /\ tess_calls = <<>>
        /\ normal_calls = <<>>
        /\ ex_result = NoResult
        /\ line = <<>> /\ str_v = <<>> /\ str_vn = <<>> /\ str_vp = <<>> /\ str_f = <<>>

C7_Witness ==
    /\ ex_pc = "error"
    /\ surface.pdimension = 2
    /\ Len(surface.items) >= 1
    /\ vertex_spacing = 0
    /\ include_vertex_normal

\* C8: the tessellator is called with the surface's evaluated points, its u and
\* v sample counts and the validated vertex_spacing.
C8_TessellatorGetsSpacing ==
    \A k \in 1..Len(tess_calls) :
        LET call == tess_calls[k]
            srf == surface.items[k]
        IN  /\ call.args = <<srf.evalpts, srf.sample_size.u, srf.sample_size.v>>
            /\ "vertex_spacing" \in DOMAIN call.kwargs
            /\ call.kwargs["vertex_spacing"] = vertex_spacing

\* C9: a malformed or out-of-range line anywhere in the input aborts the whole
\* import: nothing is returned and the callback is not called.
C9_BadLineAbortsImport ==
    [][LineStep /\ (MalformedLine(NewData) \/ OutOfRangeLine(NewData, Len(vertices)))
          => im_pc' = "error" /\ result' = NoResult /\ cb_calls' = <<>>]_vars

\* C10: a `v` or `f` line with fewer than three tokens after the leading one is a
\* parse failure that appends no Vertex and no Triangle and does not set the
\* in-face flag.
C10_ShortLineFailsWithoutEffect ==
    [][LineStep /\ ShortLine(NewData)
          => /\ im_pc' = "error"
             /\ Len(vertices') <= Len(vertices)
             /\ Len(triangles') <= Len(triangles)
             /\ (on_face' => on_face)]_vars

\* C11: the callback is called exactly once on a successful import, after the
\* last line and the final pending Face; it is given the complete Face sequence
\* and what it returns is returned as it is.
C11_CallbackOnceAfterFinalFace ==
    /\ im_pc \in {"loop", "error"} => cb_calls = <<>> /\ result = NoResult
    /\ im_pc = "done" =>
          /\ Len(cb_calls) = 1
          /\ cb_calls[1] = faces
          /\ Len(cb_calls[1]) = Transitions(content_arr)
                + (IF LastVF(content_arr) = "f" THEN 1 ELSE 0)
          /\ triangles # <<>> => Last(cb_calls[1]).data = triangles
          /\ callback_func = "default_callback" => result = cb_calls[1]
          /\ callback_func = "user_callback" =>
                /\ Len(result) = Len(cb_calls[1])
                /\ \A k \in 1..Len(result) : result[k] = cb_calls[1][Len(result) + 1 - k]

C11_Witness ==
    /\ im_pc = "done"
    /\ callback_func = "user_callback"
    /\ Len(cb_calls) = 1
    /\ Len(cb_calls[1]) = 2
    /\ triangles # <<>>
    /\ result[1] = cb_calls[1][2]

\* C12: Faces carry the ids 1..n, the triangles of a Face 1..m and the vertices
\* of a vertex block 1..k, all in source order; between two lines
\* vert_idx = len(vertices) + 1, tri_idx = len(triangles) + 1 and
\* face_idx = len(faces) + 1.
C12_IdsAreSequential ==
    im_pc \in {"loop", "done"} =>
        /\ im_pc = "loop" =>
              /\ vert_idx = Len(vertices) + 1
              /\ tri_idx = Len(triangles) + 1
              /\ face_idx = Len(faces) + 1
        /\ \A k \in 1..Len(vertices) : vertices[k].id = k
        /\ \A t \in 1..Len(triangles) : triangles[t].id = t
        /\ \A k \in 1..Len(faces) :
              /\ faces[k].id = k
              /\ \A t \in 1..Len(faces[k].data) : faces[k].data[t].id = t

C12_Witness ==
    /\ im_pc = "done"
    /\ Len(faces) = 2
    /\ Len(faces[2].data) = 2
    /\ faces[2].data[2].id = 2
    /\ Len(vertices) = 1

\* C13: a line whose leading token is neither `v` nor `f` leaves the vertex
\* buffer, the triangle buffer, the in-face flag, the three counters and the
\* Face list as they are, and the import goes on.
C13_OtherLinesChangeNothing ==
    [][LineStep /\ NewData[1] \notin {"v", "f"} =>
          /\ im_pc' = "loop"
          /\ UNCHANGED <<on_face, vertices, triangles, faces, vert_idx, tri_idx,
                         face_idx, cb_calls, result>>]_vars

C13_Witness ==
    /\ im_pc = "loop"
    /\ Len(content_arr) >= 3
    /\ HeadToken(Last(content_arr)) = "vn"
    /\ HeadToken(content_arr[Len(content_arr) - 1]) = "f"
    /\ on_face
    /\ HeadToken(content_arr[1]) = ""

\* every Triangle the parser holds: those of the buffer and those of the Faces
AllTriangles ==
    {triangles[t] : t \in 1..Len(triangles)} \cup
    UNION { {faces[k].data[t] : t \in 1..Len(faces[k].data)} : k \in 1..Len(faces) }

\* C14: every Triangle import_obj produces references exactly 3 vertices,
\* whatever the number of index tokens of its `f` line.
C14_TrianglesHoldThreeVertices ==
    \A tri \in AllTriangles : Len(tri.data) = 3

\* C15: the vertices of an imported Triangle are in the order of the index tokens
\* of its `f` line, none dropped; the indices of an exported `f` line are in the
\* order of the indices of the mesh triangle.
C15_WindingPreserved ==
    /\ [][LineStep /\ im_pc' = "loop" /\ NewData[1] = "f" =>
            /\ Front(triangles') = triangles
            /\ Len(Last(triangles').data) = Len(NewData) - 1
            /\ \A k \in 2..Len(NewData) :
                  ParseInt(NewData[k]) \in 1..Len(vertices) =>
                     Last(triangles').data[k - 1] = vertices[ParseInt(NewData[k])]]_vars
    /\ [](ex_pc = "done" =>
            \A s \in 1..Processed : \A t \in 1..Len(MeshOf(s).triangles) :
               \A c \in 1..3 :
                  NatOf(OutLines("f")[TrisBefore(s) + t][c + 1]) - VertsBefore(s) - 1
                     = MeshOf(s).triangles[t].data[c])

C15_Witness ==
    /\ ex_pc = "done"
    /\ Processed = 2
    /\ Len(MeshOf(2).vertices) = 3
    /\ Len(MeshOf(2).triangles) = 2
    /\ MeshOf(2).triangles[2].data = <<2, 0, 1>>
    /\ OutLines("f")[Len(OutLines("f"))][2] # OutLines("f")[Len(OutLines("f"))][4]

\* the options as the caller gave them
WantsNormals == "vertex_normals" \in DOMAIN kwargs /\ kwargs["vertex_normals"] = TRUE

WantsParams == "parametric_vertices" \in DOMAIN kwargs /\ kwargs["parametric_vertices"] = TRUE

\* C16: for meshes of V vertices and F triangles in total the text holds V `v`
\* lines and F `f` lines, V `vn` lines with vertex_normals and none without,
\* V `vp` lines with parametric_vertices and none without; the normal evaluator
\* is called only with vertex_normals.
C16_LineCounts ==
    /\ ~WantsNormals => normal_calls = <<>>
    /\ ex_pc = "done" =>
          LET V == VertsBefore(Processed + 1)
              F == TrisBefore(Processed + 1)
          IN  /\ Processed = Len(surface.items)
              /\ Len(OutLines("v")) = V
              /\ Len(OutLines("f")) = F
              /\ Len(OutLines("vn")) = IF WantsNormals THEN V ELSE 0
              /\ Len(OutLines("vp")) = IF WantsParams THEN V ELSE 0
              /\ Len(normal_calls) = IF WantsNormals THEN V ELSE 0
              /\ Len(ex_result) = 1 + Len(OutLines("v")) + Len(OutLines("vn"))
                                    + Len(OutLines("vp")) + Len(OutLines("f"))

C16_Witness ==
    /\ ex_pc = "done"
    /\ Processed = 2
    /\ WantsNormals
    /\ ~WantsParams
    /\ Len(OutLines("vn")) = 5
    /\ Len(OutLines("f")) = 3

\* every line read so far is blank
AllBlank == \A k \in 1..Len(content_arr) : Tokenize(content_arr[k]) = <<"">>

\* C17: on an input with no line but blank ones the import does not fail and
\* gives the callback an empty Face sequence, so the default result is empty.
C17_EmptyInputGivesNoFaces ==
    AllBlank =>
        /\ im_pc # "error"
        /\ faces = <<>>
        /\ im_pc = "done" =>
              /\ cb_calls = << <<>> >>
              /\ callback_func = "default_callback" => result = <<>>

C17_Witness ==
    /\ im_pc = "done"
    /\ AllBlank
    /\ Len(content_arr) = 2
    /\ callback_func = "default_callback"
    /\ result = <<>>

\* C18: between two lines of an accepted input the in-face flag is set exactly
\* when the triangle buffer is not empty; so the final Face is appended exactly
\* when the flag is set at the end, and a `v` line never wraps an empty buffer.
C18_FlagIffTrianglesPending ==
    [][/\ im_pc = "loop" => (on_face <=> triangles # <<>>)
       /\ im_pc' = "loop" => (on_face' <=> triangles' # <<>>)
       /\ LineStep /\ im_pc' = "loop" /\ Len(faces') > Len(faces) =>
             triangles # <<>> /\ Last(faces').data = triangles
       /\ im_pc = "loop" /\ im_pc' = "done" =>
             (Len(faces') > Len(faces) <=> on_face)]_vars

C18_Witness ==
    /\ im_pc = "done"
    /\ on_face
    /\ Len(faces) = 2
    /\ Transitions(content_arr) = 1
    /\ Len(triangles) = 1

\* no `f` line among the lines
RECURSIVE NoFaceLine(_)
NoFaceLine(lines) ==
    lines = <<>> \/ (HeadToken(Last(lines)) # "f" /\ NoFaceLine(Front(lines)))

\* C19: every Face returned holds at least one Triangle; a vertex block that no
\* `f` line follows before the end of input gives no Face and its vertices are
\* in no Face returned.
C19_EveryFaceHasATriangle ==
    /\ [](/\ \A k \in 1..Len(faces) : faces[k].data # <<>>
          /\ im_pc = "done" =>
                /\ \A k \in 1..Len(cb_calls[1]) : cb_calls[1][k].data # <<>>
                /\ LastVF(content_arr) # "f" =>
                      Len(cb_calls[1]) = Transitions(content_arr)
                /\ NoFaceLine(content_arr) => cb_calls[1] = <<>>)
    /\ [][/\ LineStep /\ im_pc' = "loop" /\ NewData[1] = "v" =>
                /\ triangles' = IF faces' = faces THEN triangles ELSE <<>>
                /\ faces' # faces => faces' = Append(faces, Face(triangles, Len(faces) + 1))
          /\ im_pc = "loop" /\ im_pc' = "done" /\ LastVF(content_arr) # "f" =>
                faces' = faces]_vars

C19_Witness ==
    /\ im_pc = "done"
    /\ LastVF(content_arr) = "v"
    /\ Len(vertices) = 2
    /\ Len(cb_calls[1]) = 1
    /\ Transitions(content_arr) = 1

\* C20: with vertex_normals or parametric_vertices the k-th `vn` line and the
\* k-th `vp` line come from the mesh vertex (of the same surface) the k-th `v`
\* line comes from, for any number of surfaces.
C20_NormalsAndParamsFollowVertices ==
    ex_pc = "done" =>
        LET slots == VertexSlots(Processed)
            vert(k) == MeshOf(slots[k][1]).vertices[slots[k][2]]
            v == OutLines("v")
            vn == OutLines("vn")
            vp == OutLines("vp")
        IN  /\ Len(v) = Len(slots)
            /\ \A k \in 1..Len(v) : v[k] = <<"v", Str(vert(k).x), Str(vert(k).y), Str(vert(k).z)>>
            /\ WantsParams =>
                  /\ Len(vp) = Len(v)
                  /\ \A k \in 1..Len(v) :
                        vp[k] = <<"vp", Str(vert(k).uv[1]), Str(vert(k).uv[2])>>
            /\ WantsNormals =>
                  /\ Len(vn) = Len(v)
                  /\ Len(normal_calls) = Len(v)
                  /\ \A k \in 1..Len(v) :
                        LET sn == SurfaceNormal(surface.items[slots[k][1]], vert(k).uv, TRUE)
                        IN  /\ normal_calls[k] = <<surface.items[slots[k][1]], vert(k).uv, TRUE>>
                            /\ vn[k] = <<"vn", Str(sn[2][1]), Str(sn[2][2]), Str(sn[2][3])>>

C20_Witness ==
    /\ ex_pc = "done"
    /\ Processed = 2
    /\ WantsNormals
    /\ WantsParams
    /\ Len(MeshOf(1).vertices) = 2
    /\ Len(MeshOf(2).vertices) = 3
    /\ Len(OutLines("vn")) = 5
    /\ Len(OutLines("vp")) = 5

====
